---- MODULE Spec2Model ----
(***************************************************************************)
(* A model of cloud-datastore-rs: the typed value codec on Entity and Key, *)
(* the EntityBuilder, the Book conversion contract of the high_level       *)
(* example, and the AuthInterceptor tower service.                         *)
(*                                                                         *)
(* Rust values are modelled as follows.                                    *)
(*   Option<T>      None is <<>>, Some(x) is <<x>>                         *)
(*   Result<T, E>   Ok(v) is [ok |-> TRUE, v |-> v],                       *)
(*                  Err(e) is [ok |-> FALSE, e |-> e]                      *)
(*   String         a TLA+ string; format! is concatenation with \o        *)
(*   Vec<T>         a sequence                                             *)
(*   HashMap<K, V>  a function whose domain is the set of keys             *)
(*   enum variant   a record with a tag field and a field for its payload  *)
(***************************************************************************)
EXTENDS Integers, Sequences, FiniteSets, TLC

VARIABLES
    builder,    \* Option<EntityBuilder>: the entity under construction
    log,        \* the EntityBuilder calls made on the builder, in order
    entity,     \* Option<Entity>: the entity the accessors read
    origin,     \* Option<Book>: the Book the entity was converted from
    last,       \* the last accessor call on the entity and its result
    interceptors, \* interceptor id -> Option<AuthInterceptor>
    ready,      \* the inner-transport handles that have been polled ready
    calls,      \* the futures returned by AuthInterceptor::call, in call order
    wire,       \* the requests the inner transport has received
    config,     \* Option of the arguments AuthInterceptor::new was given
    datastore,  \* Option<Datastore>: the facade, without its service
    rpc         \* the last operation of the facade: request, answer, result

codecVars == <<builder, log, entity, origin, last>>
authVars == <<interceptors, ready, calls, wire, config>>
facadeVars == <<datastore, rpc>>
vars == <<builder, log, entity, origin, last, interceptors, ready, calls, wire, config,
          datastore, rpc>>

----------------------------------------------------------------------------
(* Bounds of the model. *)

\* The most EntityBuilder calls made on one builder.
MaxOps == 2
\* The longest array value and the longest Book.tags.
MaxArrayLen == 2

Names == {"title", "tags"}
StrVals == {"a", "b"}
Kinds == {"Book", "Movie"}

None == <<>>
Some(x) == <<x>>
Ok(v) == [ok |-> TRUE, v |-> v]
Err(e) == [ok |-> FALSE, e |-> e]

----------------------------------------------------------------------------
(* The wire types: Value, ValueType, Key, PathElement, Entity. *)

StringValue(s) == [tag |-> "StringValue", string |-> s]
BooleanValue(b) == [tag |-> "BooleanValue", boolean |-> b]
IntegerValue(i) == [tag |-> "IntegerValue", integer |-> i]
ArrayValue(values) == [tag |-> "ArrayValue", values |-> values]

IdName(s) == [tag |-> "Name", name |-> s]
IdId(i) == [tag |-> "Id", id |-> i]

\* Value { ..Default::default() } with the two fields the library sets.
Value(exclude, value_type) ==
    [meaning |-> 0, exclude_from_indexes |-> exclude, value_type |-> value_type]

PathElement(kind, id_type) == [kind |-> kind, id_type |-> id_type]

Key(path) == [path |-> path]

EmptyProperties == [n \in {} |-> Value(FALSE, None)]

\* Entity::default(): no key, no properties.
DefaultEntity == [key |-> None, properties |-> EmptyProperties]

\* HashMap::insert: the entry for k is replaced or added.
Insert(m, k, v) == [n \in (DOMAIN m) \cup {k} |-> IF n = k THEN v ELSE m[n]]

\* HashMap::get
Get(m, k) == IF k \in DOMAIN m THEN Some(m[k]) ELSE None

----------------------------------------------------------------------------
(* Errors. *)

EntityValueError(msg) == [error |-> "EntityValueError", msg |-> msg]
KeyError(msg) == [error |-> "KeyError", msg |-> msg]

\* impl From<KeyError> / From<EntityValueError> for TryFromEntityError
TryFromEntityError(e) == [error |-> "TryFromEntityError", variant |-> e.error, inner |-> e]

----------------------------------------------------------------------------
(* Key *)

Key_kind(key) ==
    IF Len(key.path) = 0
    THEN Err(KeyError("Key has no path"))
    ELSE Ok(key.path[1].kind)

\* A Key_name that reads the last path segment, not the first.
Key_name_of_last_segment(key) ==
    IF Len(key.path) = 0
    THEN Err(KeyError("Key has no path"))
    ELSE LET id_type == key.path[Len(key.path)].id_type
         IN IF id_type = None
            THEN Err(KeyError("Key has no name"))
            ELSE IF id_type[1].tag = "Name"
                 THEN Ok(id_type[1].name)
                 ELSE Err(KeyError("Key has no name"))

Key_name(key) ==
    IF Len(key.path) = 0
    THEN Err(KeyError("Key has no path"))
    ELSE LET id_type == key.path[1].id_type
         IN IF id_type = None
            THEN Err(KeyError("Key has no name"))
            ELSE IF id_type[1].tag = "Name"
                 THEN Ok(id_type[1].name)
                 ELSE Err(KeyError("Key has no name"))

----------------------------------------------------------------------------
(* EntityBuilder: every method takes the builder by value and returns it;  *)
(* the operators below map the builder's entity to the new one.            *)

EntityBuilder_new == DefaultEntity

EntityBuilder_with_key(e, key) == [e EXCEPT !.key = Some(key)]

EntityBuilder_with_key_name(e, kind, name) ==
    EntityBuilder_with_key(e, Key(<<PathElement(kind, Some(IdName(name)))>>))

\* An add_value that stores the indexed argument as the exclusion flag.
EntityBuilder_add_value_flag_not_negated(e, name, value, indexed) ==
    [e EXCEPT !.properties = Insert(@, name, Value(indexed, Some(value)))]

EntityBuilder_add_value(e, name, value, indexed) ==
    [e EXCEPT !.properties = Insert(@, name, Value(~indexed, Some(value)))]

\* An opt_value that writes a property without a variant for an absent value.
EntityBuilder_opt_value_writing_absent(e, name, value, indexed) ==
    IF value # None
    THEN EntityBuilder_add_value(e, name, value[1], indexed)
    ELSE [e EXCEPT !.properties = Insert(@, name, Value(~indexed, None))]

EntityBuilder_opt_value(e, name, value, indexed) ==
    IF value # None
    THEN EntityBuilder_add_value(e, name, value[1], indexed)
    ELSE e

\* value.into() is From<String> for ValueType: ValueType::StringValue(s)
EntityBuilder_add_string(e, name, value, indexed) ==
    EntityBuilder_add_value(e, name, StringValue(value), indexed)

\* value.map(Into::into)
EntityBuilder_opt_string(e, name, value, indexed) ==
    EntityBuilder_opt_value(e, name,
        IF value = None THEN None ELSE Some(StringValue(value[1])), indexed)

EntityBuilder_add_bool(e, name, value, indexed) ==
    EntityBuilder_add_value(e, name, BooleanValue(value), indexed)

\* value.map(ValueType::BooleanValue)
EntityBuilder_opt_bool(e, name, value, indexed) ==
    EntityBuilder_opt_value(e, name,
        IF value = None THEN None ELSE Some(BooleanValue(value[1])), indexed)

\* An add_string_array that stores the elements in reverse order.
EntityBuilder_add_string_array_reversed(e, name, values) ==
    [e EXCEPT !.properties = Insert(@, name,
        Value(FALSE, Some(ArrayValue(
            [i \in 1..Len(values) |->
                Value(FALSE, Some(StringValue(values[Len(values) + 1 - i])))]))))]

\* Each element and the array itself are Value { value_type, ..Default::default() }.
EntityBuilder_add_string_array(e, name, values) ==
    [e EXCEPT !.properties = Insert(@, name,
        Value(FALSE, Some(ArrayValue(
            [i \in 1..Len(values) |-> Value(FALSE, Some(StringValue(values[i])))]))))]

EntityBuilder_build(e) == e

----------------------------------------------------------------------------
(* The typed accessors of Entity. *)

\* A req_key that does not compare the kind.
Entity_req_key_any_kind(e, kind) ==
    IF e.key = None
    THEN Err(EntityValueError("Missing Key"))
    ELSE LET key == e.key[1]
             key_kind == Key_kind(key)
         IN IF ~key_kind.ok
            THEN Err(EntityValueError(key_kind.e.msg))
            ELSE Ok(key)

Entity_req_key(e, kind) ==
    IF e.key = None
    THEN Err(EntityValueError("Missing Key"))
    ELSE LET key == e.key[1]
             key_kind == Key_kind(key)
         IN IF ~key_kind.ok
            THEN Err(EntityValueError(key_kind.e.msg))
            ELSE IF key_kind.v = kind
                 THEN Ok(key)
                 ELSE Err(EntityValueError("Invalid Key Kind. Expected '" \o kind \o "'."))

\* An opt_string that takes a property of another variant for an absent one.
Entity_opt_string_mismatch_absent(e, name) ==
    LET got == Get(e.properties, name)
    IN IF got # None /\ got[1].value_type # None
          /\ got[1].value_type[1].tag = "StringValue"
       THEN Ok(Some(got[1].value_type[1].string))
       ELSE Ok(None)

Entity_opt_string(e, name) ==
    LET got == Get(e.properties, name)
    IN IF got # None /\ got[1].value_type # None
          /\ got[1].value_type[1].tag = "StringValue"
       THEN Ok(Some(got[1].value_type[1].string))
       ELSE IF got = None
            THEN Ok(None)
            ELSE Err(EntityValueError("Field " \o name \o " is not a string"))

\* A req_string that returns the empty string for an absent property.
Entity_req_string_defaulting(e, name) ==
    LET r == Entity_opt_string(e, name)
    IN IF ~r.ok THEN r
       ELSE IF r.v = None
            THEN Ok("")
            ELSE Ok(r.v[1])

\* .and_then(|v| v.ok_or(EntityValueError("missing required field")))
Entity_req_string(e, name) ==
    LET r == Entity_opt_string(e, name)
    IN IF ~r.ok THEN r
       ELSE IF r.v = None
            THEN Err(EntityValueError("missing required field"))
            ELSE Ok(r.v[1])

Entity_opt_bool(e, name) ==
    LET got == Get(e.properties, name)
    IN IF got # None /\ got[1].value_type # None
          /\ got[1].value_type[1].tag = "BooleanValue"
       THEN Ok(Some(got[1].value_type[1].boolean))
       ELSE IF got = None
            THEN Ok(None)
            ELSE Err(EntityValueError("Field " \o name \o " is not a boolean"))

Entity_req_bool(e, name) ==
    LET r == Entity_opt_bool(e, name)
    IN IF ~r.ok THEN r
       ELSE IF r.v = None
            THEN Err(EntityValueError("missing required field"))
            ELSE Ok(r.v[1])

\* array.values.iter().map(..).collect::<Result<Vec<String>, _>>(): the
\* elements are visited in order, the strings collected so far are acc, and
\* the first element that is not a string ends the collection with its error.
RECURSIVE CollectStrings(_, _, _, _)
CollectStrings(values, name, i, acc) ==
    IF i > Len(values)
    THEN Ok(acc)
    ELSE LET value_type == values[i].value_type
         IN IF value_type # None /\ value_type[1].tag = "StringValue"
            THEN CollectStrings(values, name, i + 1, Append(acc, value_type[1].string))
            ELSE Err(EntityValueError("Field " \o name \o " is not a string"))

IsStringElement(value) ==
    value.value_type # None /\ value.value_type[1].tag = "StringValue"

\* An opt_string_array that returns the string elements and skips the others.
Entity_opt_string_array_skipping(e, name) ==
    LET got == Get(e.properties, name)
        value_type == IF got = None THEN None ELSE got[1].value_type
    IN IF value_type = None
       THEN Ok(None)
       ELSE IF value_type[1].tag = "ArrayValue"
            THEN LET strings == SelectSeq(value_type[1].values, IsStringElement)
                 IN Ok(Some([i \in 1..Len(strings) |-> strings[i].value_type[1].string]))
            ELSE Err(EntityValueError("Field " \o name \o " is not an array"))

\* An opt_string_array that, like opt_string, takes a property with no value
\* variant for a property of another type.
Entity_opt_string_array_strict(e, name) ==
    LET got == Get(e.properties, name)
    IN IF got = None
       THEN Ok(None)
       ELSE IF got[1].value_type # None /\ got[1].value_type[1].tag = "ArrayValue"
            THEN LET collected == CollectStrings(got[1].value_type[1].values, name, 1, <<>>)
                 IN IF collected.ok THEN Ok(Some(collected.v)) ELSE collected
            ELSE Err(EntityValueError("Field " \o name \o " is not an array"))

Entity_opt_string_array(e, name) ==
    LET got == Get(e.properties, name)
        \* self.properties.get(name).and_then(|v| v.value_type.clone())
        value_type == IF got = None THEN None ELSE got[1].value_type
    IN IF value_type = None
       THEN Ok(None)
       ELSE IF value_type[1].tag = "ArrayValue"
            THEN LET collected == CollectStrings(value_type[1].values, name, 1, <<>>)
                 IN IF collected.ok THEN Ok(Some(collected.v)) ELSE collected
            ELSE Err(EntityValueError("Field " \o name \o " is not an array"))

Entity_req_string_array(e, name) ==
    LET result == Entity_opt_string_array(e, name)
    IN IF ~result.ok THEN result
       ELSE IF result.v = None
            THEN Err(EntityValueError("Entity missing required field '" \o name \o "'"))
            ELSE Ok(result.v[1])

----------------------------------------------------------------------------
(* The conversion contract of examples/high_level.rs: Book. *)

Book(id, title, tags) == [id |-> id, title |-> title, tags |-> tags]

\* impl From<Book> for Entity
Book_into_entity(book) ==
    EntityBuilder_build(
        EntityBuilder_add_string_array(
            EntityBuilder_add_string(
                EntityBuilder_with_key_name(EntityBuilder_new, "Book", book.id),
                "title", book.title, TRUE),
            "tags", book.tags))

\* impl TryFromEntity for Book; each ? converts the error with From into
\* TryFromEntityError and returns it.
Book_try_from_entity(value) ==
    LET key == Entity_req_key(value, "Book")
    IN IF ~key.ok THEN Err(TryFromEntityError(key.e))
       ELSE LET id == Key_name(key.v)
            IN IF ~id.ok THEN Err(TryFromEntityError(id.e))
               ELSE LET title == Entity_req_string(value, "title")
                    IN IF ~title.ok THEN Err(TryFromEntityError(title.e))
                       ELSE LET tags == Entity_req_string_array(value, "tags")
                            IN IF ~tags.ok THEN Err(TryFromEntityError(tags.e))
                               ELSE Ok(Book(id.v, title.v, tags.v))

----------------------------------------------------------------------------
(* The inputs the actions draw from. *)

\* The longest key path.
MaxPathLen == 2

SeqsUpTo(S, n) == UNION {[1..k -> S] : k \in 0..n}

StrSeqs == SeqsUpTo(StrVals, MaxArrayLen)

KeyNames == {"b1", "b2"}

Books == {Book(id, title, tags) : id \in KeyNames, title \in StrVals, tags \in StrSeqs}

IdTypes == {None, Some(IdName("b1")), Some(IdId(1))}

PathElements ==
    {PathElement("Book", id_type) : id_type \in IdTypes}
        \cup {PathElement("Movie", Some(IdName("b1")))}

Keys == {Key(path) : path \in SeqsUpTo(PathElements, MaxPathLen)}

BookKey == Key(<<PathElement("Book", Some(IdName("b1")))>>)

ScalarTypes ==
    {StringValue(s) : s \in StrVals} \cup {BooleanValue(b) : b \in BOOLEAN}
        \cup {IntegerValue(7)}

\* The elements of a received array: strings, another variant, no variant.
ElemValues ==
    {Value(FALSE, Some(StringValue(s))) : s \in StrVals}
        \cup {Value(FALSE, Some(BooleanValue(TRUE))), Value(FALSE, None)}

ArrayTypes == {ArrayValue(a) : a \in SeqsUpTo(ElemValues, MaxArrayLen)}

ScalarValues ==
    {Value(FALSE, None), Value(TRUE, Some(StringValue("a")))}
        \cup {Value(FALSE, Some(t)) : t \in ScalarTypes}

AllValues == ScalarValues \cup {Value(FALSE, Some(t)) : t \in ArrayTypes}

SimpleValues == {Value(FALSE, Some(StringValue("a"))), Value(FALSE, Some(IntegerValue(7)))}

MapsOver(V) == UNION {[D -> V] : D \in SUBSET Names}

\* The entities a lookup or query response may hold: every key with a few
\* properties, and under a Book key or no key every property map in which
\* at most one property is an array.
ReceivedEntities ==
    {[key |-> k, properties |-> m] :
        k \in {None} \cup {Some(key) : key \in Keys}, m \in MapsOver(SimpleValues)}
    \cup {[key |-> k, properties |-> m] :
        k \in {None, Some(BookKey)},
        m \in {x \in MapsOver(AllValues) :
                 Cardinality({n \in DOMAIN x : x[n] \notin ScalarValues}) <= 1}}

\* The values add_value and opt_value are given besides strings and booleans.
OtherTypes == {IntegerValue(7)}
    \cup {ArrayValue(<<Value(FALSE, Some(StringValue("a"))), Value(FALSE, None)>>)}

NoCall == [op |-> "none"]

----------------------------------------------------------------------------
(* Reading: an entity arrives in a response or is converted from a Book,   *)
(* and the accessors are called on it.                                     *)

Receive(e) ==
    /\ builder = None /\ entity = None
    /\ entity' = Some(e)
    /\ origin' = None
    /\ last' = NoCall
    /\ UNCHANGED <<builder, log>>
    /\ UNCHANGED <<authVars, facadeVars>>

\* Entity::from(book)
FromBook(book) ==
    /\ builder = None /\ entity = None
    /\ entity' = Some(Book_into_entity(book))
    /\ origin' = Some(book)
    /\ last' = NoCall
    /\ UNCHANGED <<builder, log>>
    /\ UNCHANGED <<authVars, facadeVars>>

Called(op, name, res) ==
    /\ last' = [op |-> op, name |-> name, res |-> res]
    /\ UNCHANGED <<builder, log, entity, origin>>
    /\ UNCHANGED <<authVars, facadeVars>>

ReqKey(kind) ==
    /\ entity # None
    /\ Called("req_key", kind, Entity_req_key(entity[1], kind))

KeyKind ==
    /\ entity # None /\ entity[1].key # None
    /\ Called("kind", "", Key_kind(entity[1].key[1]))

KeyName ==
    /\ entity # None /\ entity[1].key # None
    /\ Called("name", "", Key_name(entity[1].key[1]))

OptString(name) ==
    /\ entity # None
    /\ Called("opt_string", name, Entity_opt_string(entity[1], name))

ReqString(name) ==
    /\ entity # None
    /\ Called("req_string", name, Entity_req_string(entity[1], name))

OptBool(name) ==
    /\ entity # None
    /\ Called("opt_bool", name, Entity_opt_bool(entity[1], name))

ReqBool(name) ==
    /\ entity # None
    /\ Called("req_bool", name, Entity_req_bool(entity[1], name))

OptStringArray(name) ==
    /\ entity # None
    /\ Called("opt_string_array", name, Entity_opt_string_array(entity[1], name))

ReqStringArray(name) ==
    /\ entity # None
    /\ Called("req_string_array", name, Entity_req_string_array(entity[1], name))

\* Book::try_from_entity(entity)
TryFromEntity ==
    /\ entity # None
    /\ Called("try_from_entity", "Book", Book_try_from_entity(entity[1]))

----------------------------------------------------------------------------
(* Writing: a builder is created, written to and built. *)

NewBuilder ==
    /\ builder = None
    /\ builder' = Some(EntityBuilder_new)
    /\ log' = <<>>
    /\ entity' = None
    /\ origin' = None
    /\ last' = NoCall
    /\ UNCHANGED <<authVars, facadeVars>>

Wrote(e, op, name, arg, indexed) ==
    /\ builder' = Some(e)
    /\ log' = Append(log, [op |-> op, name |-> name, arg |-> arg, indexed |-> indexed])
    /\ UNCHANGED <<entity, origin, last>>
    /\ UNCHANGED <<authVars, facadeVars>>

CanWrite == builder # None /\ Len(log) < MaxOps

WithKeyName(kind, name) ==
    /\ CanWrite
    /\ Wrote(EntityBuilder_with_key_name(builder[1], kind, name),
             "with_key_name", "", <<kind, name>>, TRUE)

WithKey(key) ==
    /\ CanWrite
    /\ Wrote(EntityBuilder_with_key(builder[1], key), "with_key", "", key, TRUE)

AddValue(name, value, indexed) ==
    /\ CanWrite
    /\ Wrote(EntityBuilder_add_value(builder[1], name, value, indexed),
             "add_value", name, value, indexed)

OptValue(name, value, indexed) ==
    /\ CanWrite
    /\ Wrote(EntityBuilder_opt_value(builder[1], name, value, indexed),
             "opt_value", name, value, indexed)

AddString(name, value, indexed) ==
    /\ CanWrite
    /\ Wrote(EntityBuilder_add_string(builder[1], name, value, indexed),
             "add_string", name, value, indexed)

BuilderOptString(name, value, indexed) ==
    /\ CanWrite
    /\ Wrote(EntityBuilder_opt_string(builder[1], name, value, indexed),
             "opt_string", name, value, indexed)

AddBool(name, value, indexed) ==
    /\ CanWrite
    /\ Wrote(EntityBuilder_add_bool(builder[1], name, value, indexed),
             "add_bool", name, value, indexed)

BuilderOptBool(name, value, indexed) ==
    /\ CanWrite
    /\ Wrote(EntityBuilder_opt_bool(builder[1], name, value, indexed),
             "opt_bool", name, value, indexed)

AddStringArray(name, values) ==
    /\ CanWrite
    /\ Wrote(EntityBuilder_add_string_array(builder[1], name, values),
             "add_string_array", name, values, TRUE)

Build ==
    /\ builder # None
    /\ entity' = Some(EntityBuilder_build(builder[1]))
    /\ builder' = None
    /\ UNCHANGED <<log, origin, last>>
    /\ UNCHANGED <<authVars, facadeVars>>

----------------------------------------------------------------------------
(* AuthInterceptor.                                                        *)
(*                                                                         *)
(* An inner-transport handle is a number: the first is the channel given   *)
(* to AuthInterceptor::new, and every clone of a handle is the next        *)
(* number. ready holds the handles on which poll_ready has returned        *)
(* Ready(Ok) and nothing has been dispatched since. All interceptors share *)
(* one token source.                                                       *)

\* The most calls made.
MaxCalls == 2

\* The interceptor Datastore::new makes and a clone of it.
InterceptorIds == {1, 2}

HEADER_AUTHORIZATION == "authorization"
HEADER_REQUEST_PARAMS == "x-goog-request-params"
AUTH_SCOPE == <<"https://www.googleapis.com/auth/cloud-platform">>

ProjectIds == {"p1", "p\n2"}
DatabaseIds == {None, Some("d1")}
Tokens == {"tokA", "tokB", "tok\nC"}
TokenAnswers == {Ok(t) : t \in Tokens} \cup {Err("token source failed")}
InnerAnswers == {Ok("response"), Err("status: unavailable")}
Polls == {"Ready(Ok)", "Pending", "Ready(Err)"}

NoHeaders == [n \in {} |-> ""]

\* The requests tonic hands to the service, with the headers they carry.
Requests ==
    {[body |-> "commit", headers |-> NoHeaders],
     [body |-> "lookup", headers |-> [n \in {HEADER_AUTHORIZATION} |-> "Bearer stale"]]}

\* HeaderValue::from_str: the bytes of a header value are visible ASCII or
\* tab; of the bytes it rejects the inputs here hold line breaks only.
ParseHeaderValue(str) ==
    IF \E i \in 1..Len(str) : SubSeq(str, i, i) \in {"\n", "\r"}
    THEN Err("InvalidHeaderValue")
    ELSE Ok(str)

\* A constructor that leaves the database id out of the routing string.
AuthInterceptor_new_without_database(inner, project_id, database_id) ==
    [inner |-> inner, token_provider |-> "shared",
     request_params |-> "project_id=" \o project_id]

\* AuthInterceptor::new
AuthInterceptor_new(inner, project_id, database_id) ==
    LET request_params ==
            IF database_id # None
            THEN "project_id=" \o project_id \o "&database_id=" \o database_id[1]
            ELSE "project_id=" \o project_id
    IN [inner |-> inner, token_provider |-> "shared", request_params |-> request_params]

\* #[derive(Clone)]: every field is cloned; the clone of inner is `clone`.
AuthInterceptor_clone(self, clone) == [self EXCEPT !.inner = clone]

\* A call that leaves self.inner in place and dispatches on it.
AuthInterceptor_call_on_shared_inner(self, clone, req) ==
    [self |-> self,
     future |-> [inner |-> self.inner,
                 token_provider |-> self.token_provider,
                 request_params |-> self.request_params,
                 req |-> req]]

\* A call that keeps the polled handle in self and dispatches on the clone.
AuthInterceptor_call_on_clone(self, clone, req) ==
    [self |-> self,
     future |-> [inner |-> clone,
                 token_provider |-> self.token_provider,
                 request_params |-> self.request_params,
                 req |-> req]]

\* The synchronous part of call: self.inner is replaced by its clone and the
\* future takes the handle that was in self.inner, with clones of the token
\* provider and the routing string.
AuthInterceptor_call(self, clone, req) ==
    [self |-> [self EXCEPT !.inner = clone],
     future |-> [inner |-> self.inner,
                 token_provider |-> self.token_provider,
                 request_params |-> self.request_params,
                 req |-> req]]

\* The future after the token source has answered, up to inner.call(req):
\* each unwrap of an Err panics; otherwise the request with both headers
\* inserted is handed to the inner handle.
Decorate(future, token) ==
    IF ~token.ok
    THEN [panic |-> TRUE, at |-> "token"]
    ELSE LET authorization == ParseHeaderValue("Bearer " \o token.v)
             params == ParseHeaderValue(future.request_params)
         IN IF ~authorization.ok
            THEN [panic |-> TRUE, at |-> "authorization"]
            ELSE IF ~params.ok
                 THEN [panic |-> TRUE, at |-> "request_params"]
                 ELSE [panic |-> FALSE,
                       req |-> [future.req EXCEPT !.headers =
                                  Insert(Insert(@, HEADER_AUTHORIZATION, authorization.v),
                                         HEADER_REQUEST_PARAMS, params.v)]]

\* A future that answers a failure of the transport with an empty success.
Respond_swallowing_failure(result) == IF result.ok THEN Ok(result.v) ELSE Ok("")

\* let response = inner.call(req).await?; Ok(response)
Respond(result) == IF result.ok THEN Ok(result.v) ELSE Err(result.e)

\* The handle a clone made now gets.
FreshHandle == Len(interceptors) + Len(calls) + 1

\* Datastore::new: the fields of the facade other than the service; an
\* absent database id becomes the empty string.
Datastore_new(project_id, database_id) ==
    [project_id |-> project_id,
     database_id |-> IF database_id = None THEN "" ELSE database_id[1]]

\* Datastore::new wraps the channel in the interceptor.
New(project_id, database_id) ==
    /\ interceptors = <<>>
    /\ interceptors' = <<AuthInterceptor_new(FreshHandle, project_id, database_id)>>
    /\ config' = Some([project_id |-> project_id, database_id |-> database_id])
    /\ datastore' = Some(Datastore_new(project_id, database_id))
    /\ UNCHANGED <<ready, calls, wire, rpc>>
    /\ UNCHANGED codecVars

Clone(i) ==
    /\ i \in 1..Len(interceptors)
    /\ Len(interceptors) < Cardinality(InterceptorIds)
    /\ interceptors' = Append(interceptors,
           AuthInterceptor_clone(interceptors[i], FreshHandle))
    /\ UNCHANGED <<ready, calls, wire, config>>
    /\ UNCHANGED <<codecVars, facadeVars>>

\* poll_ready: self.inner.poll_ready(cx), whose answer is the inner service's.
PollReady(i, poll) ==
    /\ i \in 1..Len(interceptors)
    /\ ready' = CASE poll = "Ready(Ok)" -> ready \cup {interceptors[i].inner}
                  [] poll = "Ready(Err)" -> ready \ {interceptors[i].inner}
                  [] OTHER -> ready
    /\ UNCHANGED <<interceptors, calls, wire, config>>
    /\ UNCHANGED <<codecVars, facadeVars>>

\* call(req): returns the future, which waits for the token source. The
\* interceptor is private to the crate and its one caller, tonic's client,
\* calls only after poll_ready has returned Ready(Ok).
Call(i, req) ==
    /\ i \in 1..Len(interceptors)
    /\ Len(calls) < MaxCalls
    /\ interceptors[i].inner \in ready
    /\ LET r == AuthInterceptor_call(interceptors[i], FreshHandle, req)
       IN /\ interceptors' = [interceptors EXCEPT ![i] = r.self]
          /\ calls' = Append(calls,
                 [itc |-> i, future |-> r.future, pc |-> "token", scope |-> AUTH_SCOPE,
                  polled |-> r.future.inner \in ready,
                  fresh |-> FreshHandle,
                  left |-> [inner |-> r.self.inner, polled |-> r.self.inner \in ready],
                  token |-> None, dispatched |-> 0, answer |-> None, result |-> None])
    /\ UNCHANGED <<ready, wire, config>>
    /\ UNCHANGED <<codecVars, facadeVars>>

\* The token source answers call c; the future runs up to inner.call(req).
TokenAnswer(c, token) ==
    /\ c \in 1..Len(calls)
    /\ calls[c].pc = "token"
    /\ LET d == Decorate(calls[c].future, token)
       IN IF d.panic
          THEN /\ calls' = [calls EXCEPT ![c].pc = "panicked",
                                         ![c].token = Some(token)]
               /\ UNCHANGED <<ready, wire>>
          ELSE /\ calls' = [calls EXCEPT ![c].pc = "inner",
                                         ![c].token = Some(token),
                                         ![c].dispatched = @ + 1]
               /\ wire' = wire \cup
                      {[call |-> c, handle |-> calls[c].future.inner, req |-> d.req]}
               /\ ready' = ready \ {calls[c].future.inner}
    /\ UNCHANGED <<interceptors, config>>
    /\ UNCHANGED <<codecVars, facadeVars>>

\* The inner transport answers call c and the future returns.
InnerAnswer(c, result) ==
    /\ c \in 1..Len(calls)
    /\ calls[c].pc = "inner"
    /\ calls' = [calls EXCEPT ![c].pc = "done",
                                ![c].answer = Some(result),
                                ![c].result = Some(Respond(result))]
    /\ UNCHANGED <<interceptors, ready, wire, config>>
    /\ UNCHANGED <<codecVars, facadeVars>>

----------------------------------------------------------------------------
(* Datastore, the facade.                                                  *)
(*                                                                         *)
(* Each operation builds one request, awaits the service and turns the     *)
(* answer into its result. The service is the generated client over the    *)
(* interceptor; here it is its answer, Ok(response) or Err(status).        *)

\* The most entities or keys in one batch.
MaxBatch == 2
\* The most entity results in the found list of a lookup response.
MaxFound == 2

\* The value of the unit type.
Unit == "()"

\* CloudDatastoreError, the variants the operations produce.
GrcpError(status) == [error |-> "GrcpError", status |-> status]
EntityConversionError(e) == [error |-> "EntityConversionError", inner |-> e]

\* Mutation { operation: Some(..), ..Default::default() }
Upsert(e) == [tag |-> "Upsert", entity |-> e]
Delete(k) == [tag |-> "Delete", key |-> k]
Mutation(operation) == [operation |-> Some(operation)]

\* TransactionSelector::SingleUseTransaction(TransactionOptions { mode:
\* Some(TransactionMode::ReadWrite(Default::default())) })
SingleUseReadWrite ==
    [tag |-> "SingleUseTransaction", options |-> [mode |-> Some([tag |-> "ReadWrite"])]]

CommitRequest(self, mode, transaction_selector, mutations) ==
    [project_id |-> self.project_id,
     database_id |-> self.database_id,
     mode |-> mode,
     transaction_selector |-> transaction_selector,
     mutations |-> mutations]

\* self.service.commit(request).await?.into_inner()
Committed(answer) == IF answer.ok THEN Ok(answer.v) ELSE Err(GrcpError(answer.e))

\* self.service.commit(request).await?; Ok(())
CommittedUnit(answer) == IF answer.ok THEN Ok(Unit) ELSE Err(GrcpError(answer.e))

\* Datastore::upsert_entities; e.into() is From<Book> for Entity.
Datastore_upsert_entities(self, entities, answer) ==
    LET mutations == [i \in 1..Len(entities) |->
                         Mutation(Upsert(Book_into_entity(entities[i])))]
    IN [request |-> CommitRequest(self, "Transactional", Some(SingleUseReadWrite), mutations),
        result |-> Committed(answer)]

\* Datastore::upsert_entity
Datastore_upsert_entity(self, book, answer) ==
    [request |-> CommitRequest(self, "NonTransactional", None,
                               <<Mutation(Upsert(Book_into_entity(book)))>>),
     result |-> Committed(answer)]

\* Datastore::delete_entity
Datastore_delete_entity(self, key, answer) ==
    [request |-> CommitRequest(self, "NonTransactional", None, <<Mutation(Delete(key))>>),
     result |-> CommittedUnit(answer)]

\* A batch delete built like the single delete: no transaction.
Datastore_delete_entities_non_transactional(self, keys, answer) ==
    [request |-> CommitRequest(self, "NonTransactional", None,
                               [i \in 1..Len(keys) |-> Mutation(Delete(keys[i]))]),
     result |-> CommittedUnit(answer)]

\* Datastore::delete_entities
Datastore_delete_entities(self, keys, answer) ==
    LET mutations == [i \in 1..Len(keys) |-> Mutation(Delete(keys[i]))]
    IN [request |-> CommitRequest(self, "Transactional", Some(SingleUseReadWrite), mutations),
        result |-> CommittedUnit(answer)]

LookupRequest(self, keys) ==
    [project_id |-> self.project_id,
     database_id |-> self.database_id,
     keys |-> keys,
     read_options |-> None]

\* A lookup that reports an empty found list as a failure.
Datastore_lookup_entity_failing_when_missing(self, key, answer) ==
    [request |-> LookupRequest(self, <<key>>),
     result |->
        IF ~answer.ok
        THEN Err(GrcpError(answer.e))
        ELSE IF Len(answer.v.found) = 0
             THEN Err(GrcpError("not found"))
             ELSE LET result == answer.v.found[1]
                  IN IF result.entity = None
                     THEN Ok(None)
                     ELSE LET r == Book_try_from_entity(result.entity[1])
                          IN IF r.ok THEN Ok(Some(r.v))
                                     ELSE Err(EntityConversionError(r.e))]

\* Datastore::lookup_entity::<Book>: the first element of found is the
\* one looked at; map(..).transpose() converts its entity if it has one.
Datastore_lookup_entity(self, key, answer) ==
    [request |-> LookupRequest(self, <<key>>),
     result |->
        IF ~answer.ok
        THEN Err(GrcpError(answer.e))
        ELSE IF Len(answer.v.found) = 0
             THEN Ok(None)
             ELSE LET result == answer.v.found[1]
                  IN IF result.entity = None
                     THEN Ok(None)
                     ELSE LET r == Book_try_from_entity(result.entity[1])
                          IN IF r.ok THEN Ok(Some(r.v))
                                     ELSE Err(EntityConversionError(r.e))]

\* The inputs of the facade and the answers of the service.
FacadeBooks == {Book("b1", "a", <<>>), Book("b2", "b", <<"a">>)}
FacadeKeys == {BookKey, Key(<<PathElement("Book", Some(IdName("b2")))>>)}
Statuses == {"unavailable", "permission denied"}
CommitAnswers == {Ok([index_updates |-> 1])} \cup {Err(status) : status \in Statuses}

\* The entities a lookup response holds: Books, an entity of kind Book
\* with no properties, an entity of another kind.
FoundEntities ==
    {Book_into_entity(book) : book \in FacadeBooks}
        \cup {[key |-> Some(BookKey), properties |-> EmptyProperties],
              [key |-> Some(Key(<<PathElement("Movie", Some(IdName("b1")))>>)),
               properties |-> EmptyProperties]}

\* EntityResult: the entity is optional on the wire.
EntityResults == {[entity |-> None]} \cup {[entity |-> Some(e)] : e \in FoundEntities}

LookupResponses ==
    {[found |-> found, missing |-> missing] :
        found \in SeqsUpTo(EntityResults, MaxFound),
        missing \in {<<>>, <<[entity |-> Some([key |-> Some(BookKey),
                                                properties |-> EmptyProperties])]>>}}

LookupAnswers == {Ok(r) : r \in LookupResponses} \cup {Err(status) : status \in Statuses}

Returned(op, arg, answer, r) ==
    /\ rpc' = [op |-> op, arg |-> arg, request |-> r.request, answer |-> answer,
               result |-> r.result]
    /\ UNCHANGED datastore
    /\ UNCHANGED <<codecVars, authVars>>

UpsertEntities(entities, answer) ==
    /\ datastore # None
    /\ Returned("upsert_entities", entities, answer,
                Datastore_upsert_entities(datastore[1], entities, answer))

UpsertEntity(book, answer) ==
    /\ datastore # None
    /\ Returned("upsert_entity", book, answer,
                Datastore_upsert_entity(datastore[1], book, answer))

DeleteEntity(key, answer) ==
    /\ datastore # None
    /\ Returned("delete_entity", key, answer,
                Datastore_delete_entity(datastore[1], key, answer))

DeleteEntities(keys, answer) ==
    /\ datastore # None
    /\ Returned("delete_entities", keys, answer,
                Datastore_delete_entities(datastore[1], keys, answer))

LookupEntity(key, answer) ==
    /\ datastore # None
    /\ Returned("lookup_entity", key, answer,
                Datastore_lookup_entity(datastore[1], key, answer))

----------------------------------------------------------------------------
(* Specifications. *)

Init ==
    /\ builder = None
    /\ log = <<>>
    /\ entity = None
    /\ origin = None
    /\ last = NoCall
    /\ interceptors = <<>>
    /\ ready = {}
    /\ calls = <<>>
    /\ wire = {}
    /\ config = None
    /\ datastore = None
    /\ rpc = NoCall

ReadNext ==
    \/ \E e \in ReceivedEntities : Receive(e)
    \/ \E book \in Books : FromBook(book)
    \/ \E kind \in Kinds : ReqKey(kind)
    \/ KeyKind
    \/ KeyName
    \/ \E name \in Names : OptString(name)
    \/ \E name \in Names : ReqString(name)
    \/ \E name \in Names : OptBool(name)
    \/ \E name \in Names : ReqBool(name)
    \/ \E name \in Names : OptStringArray(name)
    \/ \E name \in Names : ReqStringArray(name)
    \/ TryFromEntity

WriteNext ==
    \/ NewBuilder
    \/ \E kind \in Kinds, name \in KeyNames : WithKeyName(kind, name)
    \/ \E key \in {BookKey, Key(<<>>)} : WithKey(key)
    \/ \E name \in Names, value \in OtherTypes, indexed \in BOOLEAN :
           AddValue(name, value, indexed)
    \/ \E name \in Names, value \in {None} \cup {Some(t) : t \in OtherTypes},
          indexed \in BOOLEAN :
           OptValue(name, value, indexed)
    \/ \E name \in Names, value \in StrVals, indexed \in BOOLEAN :
           AddString(name, value, indexed)
    \/ \E name \in Names, value \in {None} \cup {Some(x) : x \in StrVals},
          indexed \in BOOLEAN :
           BuilderOptString(name, value, indexed)
    \/ \E name \in Names, value \in BOOLEAN, indexed \in BOOLEAN :
           AddBool(name, value, indexed)
    \/ \E name \in Names, value \in {None} \cup {Some(x) : x \in BOOLEAN},
          indexed \in BOOLEAN :
           BuilderOptBool(name, value, indexed)
    \/ \E name \in Names, values \in StrSeqs : AddStringArray(name, values)
    \/ Build

AuthNext ==
    \/ \E project_id \in ProjectIds, database_id \in DatabaseIds :
           New(project_id, database_id)
    \/ \E i \in InterceptorIds : Clone(i)
    \/ \E i \in InterceptorIds, poll \in Polls : PollReady(i, poll)
    \/ \E i \in InterceptorIds, req \in Requests : Call(i, req)
    \/ \E c \in 1..MaxCalls, token \in TokenAnswers : TokenAnswer(c, token)
    \/ \E c \in 1..MaxCalls, result \in InnerAnswers : InnerAnswer(c, result)

FacadeNext ==
    \/ \E project_id \in ProjectIds, database_id \in DatabaseIds :
           New(project_id, database_id)
    \/ \E entities \in SeqsUpTo(FacadeBooks, MaxBatch), answer \in CommitAnswers :
           UpsertEntities(entities, answer)
    \/ \E book \in FacadeBooks, answer \in CommitAnswers :
           UpsertEntity(book, answer)
    \/ \E key \in FacadeKeys, answer \in CommitAnswers : DeleteEntity(key, answer)
    \/ \E keys \in SeqsUpTo(FacadeKeys, MaxBatch), answer \in CommitAnswers :
           DeleteEntities(keys, answer)
    \/ \E key \in FacadeKeys, answer \in LookupAnswers : LookupEntity(key, answer)

Next == ReadNext \/ WriteNext \/ AuthNext \/ FacadeNext

Spec == Init /\ [][Next]_vars

\* The accessors on received and converted entities.
SpecCodec == Init /\ [][ReadNext]_vars

\* The EntityBuilder.
SpecBuilder == Init /\ [][WriteNext]_vars

\* The interceptor under concurrent calls.
SpecAuth == Init /\ [][AuthNext]_vars

\* The operations of the facade.
SpecFacade == Init /\ [][FacadeNext]_vars

----------------------------------------------------------------------------
(* The claims. *)

InFlight == {c \in 1..Len(calls) : calls[c].pc \in {"token", "inner"}}

\* C1: under any interleaving of concurrent calls, also on cloned
\* interceptors sharing the token source, every request the inner transport
\* receives carries the authorization header built from the token obtained
\* for that same call and the routing string of the interceptor the call was
\* issued on, on the handle that call took; no other call's differing header
\* value is on it; and no two calls in flight hold the same inner handle.
C1_CallsDoNotInterfere ==
    /\ \A w \in wire :
           LET c == calls[w.call]
           IN /\ c.token # None /\ c.token[1].ok
              /\ w.req.headers[HEADER_AUTHORIZATION] = "Bearer " \o c.token[1].v
              /\ w.req.headers[HEADER_REQUEST_PARAMS] = interceptors[c.itc].request_params
              /\ w.req.body = c.future.req.body
              /\ w.handle = c.future.inner
              /\ \A d \in 1..Len(calls) :
                     (d # w.call /\ calls[d].token # None /\ calls[d].token[1].ok
                         /\ calls[d].token[1].v # c.token[1].v)
                     => w.req.headers[HEADER_AUTHORIZATION] # "Bearer " \o calls[d].token[1].v
    /\ \A c \in InFlight, d \in InFlight :
           c # d => calls[c].future.inner # calls[d].future.inner

\* Two calls, one on an interceptor and one on its clone, are in flight at
\* once with different tokens, and both requests have reached the inner
\* transport.
C1_Witness ==
    \E c \in 1..Len(calls), d \in 1..Len(calls) :
        /\ c # d
        /\ calls[c].itc # calls[d].itc
        /\ calls[c].pc = "inner" /\ calls[d].pc = "inner"
        /\ calls[c].token # calls[d].token
        /\ \E w \in wire : w.call = c
        /\ \E w \in wire : w.call = d

\* C2: when the token source fails for a call, the call ends with an
\* authentication error returned to the caller as a failure value, and the
\* request is never forwarded to the inner transport.
C2_TokenFailureIsReturnedAsError ==
    \A c \in 1..Len(calls) :
        (calls[c].token # None /\ ~calls[c].token[1].ok)
        => /\ calls[c].pc = "done"
           /\ calls[c].result # None /\ ~calls[c].result[1].ok
           /\ calls[c].dispatched = 0
           /\ \A w \in wire : w.call # c

\* The property last.name of the entity that was read.
ReadProperty == Get(entity[1].properties, last.name)

HasVariant(value, tag) == value.value_type # None /\ value.value_type[1].tag = tag

\* C3: opt_string and opt_bool have exactly three outcomes: Ok(absent) when
\* the name is not in the property map, Ok(value) when it is there with the
\* variant asked for, and the EntityValueError "Field <name> is not a <T>"
\* when it is there with anything else.
C3_OptThreeOutcomes ==
    last.op \in {"opt_string", "opt_bool"}
    => LET tag == IF last.op = "opt_string" THEN "StringValue" ELSE "BooleanValue"
           word == IF last.op = "opt_string" THEN "string" ELSE "boolean"
           p == ReadProperty
       IN /\ p = None => last.res = Ok(None)
          /\ (p # None /\ HasVariant(p[1], tag))
             => last.res = Ok(Some(IF last.op = "opt_string"
                                   THEN p[1].value_type[1].string
                                   ELSE p[1].value_type[1].boolean))
          /\ (p # None /\ ~HasVariant(p[1], tag))
             => last.res = Err(EntityValueError("Field " \o last.name \o " is not a " \o word))

\* opt_string was called on a property that holds a boolean.
C3_Witness ==
    /\ last.op = "opt_string"
    /\ ReadProperty # None
    /\ HasVariant(ReadProperty[1], "BooleanValue")
    /\ ~last.res.ok

\* C4: on an entity without the property, req_string and req_bool fail with
\* "missing required field" while opt_string and opt_bool return Ok(absent);
\* where opt_T returns a value or an error, req_T returns that value or that
\* error.
C4_ReqPromotesAbsence ==
    /\ last.op \in {"req_string", "req_bool"}
       => LET opt == IF last.op = "req_string"
                     THEN Entity_opt_string(entity[1], last.name)
                     ELSE Entity_opt_bool(entity[1], last.name)
          IN /\ ReadProperty = None
                => /\ last.res = Err(EntityValueError("missing required field"))
                   /\ opt = Ok(None)
             /\ (opt.ok /\ opt.v # None) => last.res = Ok(opt.v[1])
             /\ ~opt.ok => last.res = opt
    /\ (last.op \in {"opt_string", "opt_bool"} /\ ReadProperty = None)
       => last.res = Ok(None)

\* req_string was called on an entity without the property.
C4_Witness ==
    /\ last.op = "req_string"
    /\ ReadProperty = None
    /\ last.res = Err(EntityValueError("missing required field"))

\* C5: req_key(kind) returns the entity's key exactly when the entity has a
\* key with a non-empty path whose first segment is of that kind; otherwise
\* it fails with an EntityValueError, which for a key of another kind names
\* the expected kind.
C5_ReqKeyChecksKind ==
    last.op = "req_key"
    => LET key == entity[1].key
           has_path == key # None /\ Len(key[1].path) > 0
           matches == has_path /\ key[1].path[1].kind = last.name
       IN /\ matches <=> last.res.ok
          /\ matches => last.res = Ok(key[1])
          /\ ~matches => last.res.e.error = "EntityValueError"
          /\ (has_path /\ ~matches)
             => last.res.e.msg = "Invalid Key Kind. Expected '" \o last.name \o "'."

\* req_key("Book") was called on an entity whose key is of kind Movie.
C5_Witness ==
    /\ last.op = "req_key" /\ last.name = "Book"
    /\ entity[1].key # None /\ Len(entity[1].key[1].path) > 0
    /\ entity[1].key[1].path[1].kind = "Movie"
    /\ ~last.res.ok

\* C6: on a property holding an array, opt_string_array and req_string_array
\* succeed only if every element is a string, and then return all elements
\* in order; if any element is of another variant or of none, the call fails
\* with an EntityValueError and returns no partial list.
C6_StringArrayAllOrNothing ==
    (/\ last.op \in {"opt_string_array", "req_string_array"}
     /\ ReadProperty # None
     /\ HasVariant(ReadProperty[1], "ArrayValue"))
    => LET values == ReadProperty[1].value_type[1].values
           all_strings == \A i \in 1..Len(values) : HasVariant(values[i], "StringValue")
           strings == [i \in 1..Len(values) |-> values[i].value_type[1].string]
       IN /\ all_strings <=> last.res.ok
          /\ all_strings
             => last.res = Ok(IF last.op = "opt_string_array" THEN Some(strings) ELSE strings)
          /\ ~all_strings => last.res.e.error = "EntityValueError"

\* req_string_array was called on an array whose first element is a string
\* and whose second is not.
C6_Witness ==
    /\ last.op = "req_string_array"
    /\ ReadProperty # None
    /\ HasVariant(ReadProperty[1], "ArrayValue")
    /\ LET values == ReadProperty[1].value_type[1].values
       IN /\ Len(values) = 2
          /\ HasVariant(values[1], "StringValue")
          /\ ~HasVariant(values[2], "StringValue")
    /\ ~last.res.ok

\* C7: for every Book, converting it to an entity with the EntityBuilder and
\* converting that entity back with try_from_entity succeeds and yields a
\* Book equal to the first.
C7_BookRoundTrip ==
    (last.op = "try_from_entity" /\ origin # None) => last.res = Ok(origin[1])

\* A Book with two different tags was converted and converted back.
C7_Witness ==
    /\ last.op = "try_from_entity"
    /\ origin # None
    /\ Len(origin[1].tags) = 2
    /\ origin[1].tags[1] # origin[1].tags[2]
    /\ last.res.ok

\* C8: Key.name() returns the name of the first path segment, whatever the
\* later segments hold; it fails with a KeyError if the path is empty or if
\* the first segment's identifier is a numeric id.
C8_NameReadsFirstSegment ==
    last.op = "name"
    => LET path == entity[1].key[1].path
       IN /\ Len(path) = 0
             => ~last.res.ok /\ last.res.e.error = "KeyError"
          /\ (Len(path) > 0 /\ path[1].id_type # None /\ path[1].id_type[1].tag = "Name")
             => last.res = Ok(path[1].id_type[1].name)
          /\ (Len(path) > 0 /\ path[1].id_type # None /\ path[1].id_type[1].tag = "Id")
             => ~last.res.ok /\ last.res.e.error = "KeyError"

\* name() was called on a key whose first segment has a numeric id and whose
\* second segment has a name.
C8_Witness ==
    /\ last.op = "name"
    /\ LET path == entity[1].key[1].path
       IN /\ Len(path) = 2
          /\ path[1].id_type # None /\ path[1].id_type[1].tag = "Id"
          /\ path[2].id_type # None /\ path[2].id_type[1].tag = "Name"
    /\ ~last.res.ok

\* The builder calls that write a property, and those that take `indexed`.
WriteOps ==
    {"add_value", "opt_value", "add_string", "opt_string", "add_bool", "opt_bool",
     "add_string_array"}
OptOps == {"opt_value", "opt_string", "opt_bool"}
IndexedOps == WriteOps \ {"add_string_array"}

\* The positions in the log of the writes to name that carry a value.
WritesTo(name) ==
    {i \in 1..Len(log) :
        /\ log[i].op \in WriteOps
        /\ log[i].name = name
        /\ log[i].op \in OptOps => log[i].arg # None}

LastWriteTo(name) == log[CHOOSE i \in WritesTo(name) : \A j \in WritesTo(name) : j <= i]

\* C9: in the built entity the excluded-from-indexes flag of a property is
\* the negation of the indexed argument of the last write to its name by a
\* method that takes that argument.
C9_FlagNegatesIndexed ==
    entity # None
    => \A name \in DOMAIN entity[1].properties :
           (WritesTo(name) # {} /\ LastWriteTo(name).op \in IndexedOps)
           => entity[1].properties[name].exclude_from_indexes
                  = ~LastWriteTo(name).indexed

\* A property was written indexed and then written again unindexed, and the
\* built entity excludes it from the indexes.
C9_Witness ==
    /\ entity # None
    /\ \E name \in DOMAIN entity[1].properties :
           /\ Cardinality(WritesTo(name)) = 2
           /\ \E i \in WritesTo(name) : log[i].op \in IndexedOps /\ log[i].indexed
           /\ LastWriteTo(name).op = "add_string"
           /\ ~LastWriteTo(name).indexed
           /\ entity[1].properties[name].exclude_from_indexes

\* The Value a write that carries a value stores.
Stored(w) ==
    CASE w.op = "add_value" -> Value(~w.indexed, Some(w.arg))
      [] w.op = "opt_value" -> Value(~w.indexed, Some(w.arg[1]))
      [] w.op = "add_string" -> Value(~w.indexed, Some(StringValue(w.arg)))
      [] w.op = "opt_string" -> Value(~w.indexed, Some(StringValue(w.arg[1])))
      [] w.op = "add_bool" -> Value(~w.indexed, Some(BooleanValue(w.arg)))
      [] w.op = "opt_bool" -> Value(~w.indexed, Some(BooleanValue(w.arg[1])))
      [] w.op = "add_string_array" ->
             Value(FALSE, Some(ArrayValue(
                 [i \in 1..Len(w.arg) |-> Value(FALSE, Some(StringValue(w.arg[i])))])))

\* The property bag the writes of the log describe: for each name written
\* with a value, what the last such write stores.
Described(properties) ==
    /\ DOMAIN properties = {name \in Names : WritesTo(name) # {}}
    /\ \A name \in DOMAIN properties : properties[name] = Stored(LastWriteTo(name))

\* C10: after any sequence of builder writes, and after build(), the
\* property bag holds exactly the names written with a value, each with the
\* value and flag of the last such write to it; an opt_* call with an absent
\* value changes nothing, and the order of writes to different names does
\* not matter.
C10_LastWriteWins ==
    /\ builder # None => Described(builder[1].properties)
    /\ entity # None => Described(entity[1].properties)

\* A property was written, then given an absent value by an opt_* call, and
\* the entity was built with the first value.
C10_Witness ==
    /\ entity # None
    /\ Len(log) = 2
    /\ log[1].op = "add_string"
    /\ log[2].op = "opt_bool" /\ log[2].arg = None /\ log[2].name = log[1].name
    /\ entity[1].properties[log[1].name] = Stored(log[1])


\* The routing string section 4.5 gives for the arguments of the constructor.
RoutingString(args) ==
    IF args.database_id = None
    THEN "project_id=" \o args.project_id
    ELSE "project_id=" \o args.project_id \o "&database_id=" \o args.database_id[1]

\* C11: every request forwarded to the inner transport carries both injected
\* headers: authorization is "Bearer " followed by the token obtained for
\* that call, and x-goog-request-params is "project_id=<id>" when the
\* interceptor was constructed without a database id and
\* "project_id=<id>&database_id=<id>" when it was constructed with one. The
\* routing string is the one computed at construction, in every interceptor
\* and clone and in every call.
C11_BothHeadersInjected ==
    /\ \A i \in 1..Len(interceptors) :
           interceptors[i].request_params = RoutingString(config[1])
    /\ \A c \in 1..Len(calls) :
           calls[c].future.request_params = RoutingString(config[1])
    /\ \A w \in wire :
           /\ {HEADER_AUTHORIZATION, HEADER_REQUEST_PARAMS} \subseteq DOMAIN w.req.headers
           /\ w.req.headers[HEADER_AUTHORIZATION] = "Bearer " \o calls[w.call].token[1].v
           /\ w.req.headers[HEADER_REQUEST_PARAMS] = RoutingString(config[1])
           /\ w.req.body = calls[w.call].future.req.body

\* Two calls have been forwarded by an interceptor constructed with a
\* database id, one of them for a request that came with an authorization
\* header of its own.
C11_Witness ==
    /\ config # None
    /\ config[1].database_id # None
    /\ \E w1, w2 \in wire :
           /\ w1.call # w2.call
           /\ HEADER_AUTHORIZATION \in DOMAIN calls[w1.call].future.req.headers
           /\ w1.req.headers[HEADER_AUTHORIZATION] = "Bearer tokA"
           /\ w1.req.headers[HEADER_REQUEST_PARAMS] = "project_id=p1&database_id=d1"
           /\ w2.req.headers[HEADER_REQUEST_PARAMS] = "project_id=p1&database_id=d1"


Forwarded(c) == {w \in wire : w.call = c}

\* C12: once decorated, the request is forwarded to the wrapped transport
\* exactly once, and what the transport answers is what the call returns: a
\* success as that success, a failure as that failure, with no retry and no
\* substitution. A call that has not got past the token source has forwarded
\* nothing and returned nothing.
C12_ForwardedOnceResultUnchanged ==
    \A c \in 1..Len(calls) :
        /\ calls[c].dispatched = Cardinality(Forwarded(c))
        /\ calls[c].pc \in {"inner", "done"} => calls[c].dispatched = 1
        /\ calls[c].pc \in {"token", "panicked"} => calls[c].dispatched = 0
        /\ calls[c].pc = "done" =>
               /\ calls[c].answer # None
               /\ calls[c].result = calls[c].answer
        /\ calls[c].pc # "done" => calls[c].result = None

\* Two calls have returned, one the transport's success and one the
\* transport's failure, each after one dispatch.
C12_Witness ==
    \E c1, c2 \in 1..Len(calls) :
        /\ calls[c1].pc = "done" /\ calls[c2].pc = "done"
        /\ calls[c1].answer = Some(Ok("response"))
        /\ calls[c1].result = Some(Ok("response"))
        /\ calls[c2].answer = Some(Err("status: unavailable"))
        /\ calls[c2].result = Some(Err("status: unavailable"))
        /\ Cardinality(Forwarded(c1)) = 1 /\ Cardinality(Forwarded(c2)) = 1


\* C13: the commit request of a batch operation (upsert_entities,
\* delete_entities) has transactional mode, a single-use read-write
\* transaction and all the mutations of the batch, in order, in the one
\* request; the commit request of a single operation (upsert_entity,
\* delete_entity) has non-transactional mode, exactly one mutation and no
\* transaction selector.
C13_CommitModes ==
    /\ rpc.op \in {"upsert_entities", "delete_entities"} =>
           /\ rpc.request.mode = "Transactional"
           /\ rpc.request.transaction_selector = Some(SingleUseReadWrite)
           /\ Len(rpc.request.mutations) = Len(rpc.arg)
           /\ \A i \in 1..Len(rpc.arg) :
                  rpc.request.mutations[i].operation =
                      IF rpc.op = "upsert_entities"
                      THEN Some(Upsert(Book_into_entity(rpc.arg[i])))
                      ELSE Some(Delete(rpc.arg[i]))
    /\ rpc.op \in {"upsert_entity", "delete_entity"} =>
           /\ rpc.request.mode = "NonTransactional"
           /\ rpc.request.transaction_selector = None
           /\ Len(rpc.request.mutations) = 1
           /\ rpc.request.mutations[1].operation =
                  IF rpc.op = "upsert_entity"
                  THEN Some(Upsert(Book_into_entity(rpc.arg)))
                  ELSE Some(Delete(rpc.arg))
    /\ rpc.op \in {"upsert_entities", "delete_entities", "upsert_entity", "delete_entity"} =>
           /\ rpc.request.project_id = datastore[1].project_id
           /\ rpc.request.database_id = datastore[1].database_id

\* A batch delete of two different keys has been committed in one request.
C13_Witness ==
    /\ rpc.op = "delete_entities"
    /\ Len(rpc.arg) = 2
    /\ rpc.arg[1] # rpc.arg[2]
    /\ rpc.request.mode = "Transactional"
    /\ Len(rpc.request.mutations) = 2
    /\ rpc.result = Ok(Unit)


\* The entities in the found list of the response of the last lookup.
FoundInResponse ==
    {rpc.answer.v.found[i].entity[1] :
        i \in {j \in 1..Len(rpc.answer.v.found) : rpc.answer.v.found[j].entity # None}}

\* C14: lookup_entity returns Ok(None), not an error, whenever the
\* response holds no found entity; it returns an error only when the
\* transport call failed, and then that failure, or when a found entity
\* failed conversion, and then that conversion failure; it returns
\* Ok(Some(v)) only when a found entity converted to v.
C14_LookupOutcomes ==
    rpc.op = "lookup_entity" =>
        /\ rpc.answer.ok /\ FoundInResponse = {} => rpc.result = Ok(None)
        /\ ~rpc.result.ok =>
               \/ ~rpc.answer.ok /\ rpc.result.e = GrcpError(rpc.answer.e)
               \/ /\ rpc.answer.ok
                  /\ \E e \in FoundInResponse :
                         /\ ~Book_try_from_entity(e).ok
                         /\ rpc.result.e = EntityConversionError(Book_try_from_entity(e).e)
        /\ rpc.result.ok /\ rpc.result.v # None =>
               /\ rpc.answer.ok
               /\ \E e \in FoundInResponse :
                      Book_try_from_entity(e) = Ok(rpc.result.v[1])

\* A lookup answered with an empty found list, and the key reported
\* missing, has returned Ok(None).
C14_Witness ==
    /\ rpc.op = "lookup_entity"
    /\ rpc.answer.ok
    /\ rpc.answer.v.found = <<>>
    /\ rpc.answer.v.missing # <<>>
    /\ rpc.result = Ok(None)


\* C15: a property that is in the map with no value variant is handled
\* differently by the accessors: opt_string_array returns Ok(absent) for it,
\* so req_string_array reports the field as missing, while opt_string and
\* opt_bool, and req_string and req_bool with them, fail with
\* "Field <name> is not a <T>". An Ok(absent) of the array accessor therefore
\* does not tell that the name is not in the map.
C15_NoVariantHandledDifferently ==
    (/\ last.op \in {"opt_string_array", "req_string_array", "opt_string", "req_string",
                     "opt_bool", "req_bool"}
     /\ ReadProperty # None
     /\ ReadProperty[1].value_type = None)
    => /\ last.op = "opt_string_array" => last.res = Ok(None)
       /\ last.op = "req_string_array" =>
              last.res = Err(EntityValueError(
                             "Entity missing required field '" \o last.name \o "'"))
       /\ last.op \in {"opt_string", "req_string"} =>
              last.res = Err(EntityValueError("Field " \o last.name \o " is not a string"))
       /\ last.op \in {"opt_bool", "req_bool"} =>
              last.res = Err(EntityValueError("Field " \o last.name \o " is not a boolean"))

\* opt_string_array has returned Ok(absent) for a name that is in the map.
C15_Witness ==
    /\ last.op = "opt_string_array"
    /\ last.res = Ok(None)
    /\ last.name \in DOMAIN entity[1].properties
    /\ entity[1].properties[last.name].value_type = None


\* C16: in every sequence of poll_ready and call on an interceptor, the
\* handle a call dispatches on is the one that was in the interceptor when
\* poll_ready returned Ready(Ok), and the handle call leaves in the
\* interceptor is the clone made by that call, which has not been polled
\* ready. No request is dispatched on a handle that was not polled ready
\* first, and a handle taken by one call is not held by any interceptor or
\* any other call afterwards, so no later call dispatches on it.
C16_DispatchOnPolledHandle ==
    /\ \A c \in 1..Len(calls) :
           /\ calls[c].polled
           /\ calls[c].pc = "token" => calls[c].future.inner \in ready
           /\ calls[c].left.inner = calls[c].fresh
           /\ calls[c].left.inner # calls[c].future.inner
           /\ ~calls[c].left.polled
           /\ \A i \in 1..Len(interceptors) :
                  interceptors[i].inner # calls[c].future.inner
           /\ \A d \in 1..Len(calls) :
                  d # c => calls[d].future.inner # calls[c].future.inner
    /\ \A w \in wire :
           /\ w.handle = calls[w.call].future.inner
           /\ calls[w.call].polled
    /\ \A w1, w2 \in wire : w1.handle = w2.handle => w1.call = w2.call

\* Two calls on one interceptor have both been dispatched: the second on
\* the clone the first left behind, after it was polled ready.
C16_Witness ==
    /\ Len(calls) = 2
    /\ calls[1].itc = calls[2].itc
    /\ calls[2].future.inner = calls[1].left.inner
    /\ calls[2].polled
    /\ \E w1, w2 \in wire :
           /\ w1.call = 1 /\ w1.handle = calls[1].future.inner
           /\ w2.call = 2 /\ w2.handle = calls[2].future.inner

============================================================================
